---- MODULE Spec2Model ----
(***************************************************************************)
(* Jaynes-Cummings simulation scripts: jaynes_cummings_dynamics,           *)
(* wigner_2d_dynamics, wigner_3d_dynamics, bloch_dynamics_snapshots and    *)
(* power_spectrum_vs_coupling, each a straight-line batch run.             *)
(*                                                                         *)
(* Number representation (exact, no floating point):                       *)
(*  - g1, kappa, gamma, n, detuning are integers in thousandths;           *)
(*  - a frequency is a record [pi, det, pi2]: pi * PI + det/1000 +         *)
(*    pi2 * PI^2 / 10^7;  the coupling g = 2*PI*g1 is kept as the          *)
(*    coefficient of PI/1000;                                              *)
(*  - a rate (the argument of np.sqrt) is an integer in millionths; a      *)
(*    weight np.sqrt(r) is the record [nan, sq]: NaN for r < 0, else the   *)
(*    non-negative real whose square is sq;                                *)
(*  - a requested snapshot time is an integer in halves of a time unit;    *)
(*    a grid time is the numerator over the denominator max(num - 1, 1).   *)
(* A composite state is kept as the set of basis states |m, s> that the    *)
(* active channels of the generator populate (s = 1 is basis(2, 1)).       *)
(***************************************************************************)
EXTENDS Integers, Sequences, FiniteSets, TLC

VARIABLES
    fn,            \* the function being invoked
    args,          \* its arguments (immutable per run)
    nanRaises,     \* whether the solver library raises on NaN operators
                   \* (read only when a weight is NaN)
    defaults,      \* the default list objects of the function definitions
    figCount,      \* pyplot's process-wide figure counter
    invocation,    \* 1 for the first call, 2.. for repeated calls
    prev,          \* the values computed by the first call
    pc,            \* position in the function body
    err,           \* "none", "library" or "local"
    times,         \* the list bound to times / snapshot_times / g_values
    H, c_ops,      \* Model Builder output
    t_list,        \* evolution time grid (numerators)
    result,        \* solver output: states and expect
    bloch_vectors, \* bloch_dynamics_snapshots: one vector per sample
    axes,          \* what plt.subplots returned
    i,             \* loop index (0-based)
    g_values,      \* power_spectrum_vs_coupling: the coupling strengths
    t,             \* the requested time of the current iteration
    idx,           \* selected sample index of the current iteration
    W,             \* post-processed value of the current iteration
    panels,        \* what has been drawn, in drawing order
    spectra,       \* correlation / spectrum results
    trace          \* the stages executed so far in this call, with their pass

vars == << fn, args, nanRaises, defaults, figCount, invocation, prev, pc, err,
           times, H, c_ops, t_list, result, bloch_vectors, axes, i, g_values,
           t, idx, W,
           panels, spectra, trace >>

----------------------------------------------------------------------------
(* Bounds of the model *)

MaxTimes == 2
MaxInvocations == 2

(* Program constants *)

TEnd == 25
WignerSamples == 100
JCSamples == 1000
JCCavityStates == 4
GammaPhiMicro == 1000
Wigner2dGrid == 200
Wigner3dGrid == 50

Functions == {"jc", "w2d", "w3d", "bloch", "psvc"}
SnapshotFunctions == {"w2d", "w3d", "bloch"}

Omitted == [given |-> FALSE, v |-> << >>]
Given(l) == [given |-> TRUE, v |-> l]

(* Stages of the pipeline, in the order the specification gives them *)
Stages == << "Model Builder", "Evolver", "Post-Processor", "Renderer" >>
Rank(s) == CHOOSE k \in 1..Len(Stages) : Stages[k] = s

----------------------------------------------------------------------------
(* Model Builder *)

TwoPi == [pi |-> 2, det |-> 0, pi2 |-> 0]

FreqAdd(a, b) == [pi |-> a.pi + b.pi, det |-> a.det + b.det, pi2 |-> a.pi2 + b.pi2]
FreqSub(a, b) == [pi |-> a.pi - b.pi, det |-> a.det - b.det, pi2 |-> a.pi2 - b.pi2]
Detuning(d) == [pi |-> 0, det |-> d, pi2 |-> 0]

\* 0.1 * g**2 with g = 2*PI*g1: 4 * g1^2 in units of PI^2 / 10^7
NonLinearShift(g1) == [pi |-> 0, det |-> 0, pi2 |-> 4 * g1 * g1]

\* g = 2 * np.pi * g1, as the coefficient of PI / 1000
Coupling(g1) == 2 * g1

\* cavity and atom frequencies used in the Hamiltonian
Frequencies(f, a) ==
    IF f = "jc"
    THEN IF a.non_linear
         THEN [wc |-> FreqAdd(FreqAdd(TwoPi, Detuning(a.detuning)), NonLinearShift(a.g1)),
               wa |-> FreqAdd(TwoPi, NonLinearShift(a.g1))]
         ELSE [wc |-> FreqAdd(TwoPi, Detuning(a.detuning)), wa |-> TwoPi]
    ELSE IF f = "psvc"
    THEN [wc |-> a.wc, wa |-> a.wa]
    ELSE [wc |-> TwoPi, wa |-> TwoPi]

CavityStates(f, a) == IF f = "jc" THEN JCCavityStates ELSE a.N

\* H = wc * a.dag() * a + wa * sm.dag() * sm + g * (a.dag() * sm + a * sm.dag())
Hamiltonian(f, a, g1) ==
    [wc |-> Frequencies(f, a).wc, wa |-> Frequencies(f, a).wa,
     g |-> Coupling(g1), N |-> CavityStates(f, a)]

\* np.sqrt: NaN (with a warning, no exception) for a negative argument
Sqrt(r) == [nan |-> r < 0, sq |-> IF r < 0 THEN 0 ELSE r]

\* variant: the thermal rates add n instead of multiplying by it
ThermalCOpsSum(a) ==
    << [w |-> Sqrt(1000 * a.kappa + a.n), op |-> "a"],
       [w |-> Sqrt(1000 * a.kappa + a.n), op |-> "a.dag"],
       [w |-> Sqrt(a.gamma * 1000), op |-> "sm"] >>

\* the three collapse operators every function builds (rates in millionths)
ThermalCOps(a) ==
    << [w |-> Sqrt(a.kappa * (1000 + a.n)), op |-> "a"],
       [w |-> Sqrt(a.kappa * a.n), op |-> "a.dag"],
       [w |-> Sqrt(a.gamma * 1000), op |-> "sm"] >>

CollapseOperators(f, a) ==
    IF f = "jc"
    THEN ThermalCOps(a) \o << [w |-> Sqrt(GammaPhiMicro), op |-> "sz"] >>
    ELSE ThermalCOps(a)

ZeroWeighted(c) == ~c.w.nan /\ c.w.sq = 0
HasNaN(cs) == \E k \in 1..Len(cs) : cs[k].w.nan

\* psi0 = tensor(basis(N, 0), basis(2, 1)): cavity vacuum, atom excited
Psi0 == << 0, 1 >>

----------------------------------------------------------------------------
(* Evolver: the master-equation solver, by the channels of its generator *)

\* np.linspace(0, stop, num): numerators over max(num - 1, 1)
Linspace(stop, num) == [k \in 1..num |-> stop * (k - 1)]
GridDen(tl) == IF Len(tl) > 1 THEN Len(tl) - 1 ELSE 1

\* variant: the exchange term acts whatever the coupling strength is
HopAlwaysCoupled(h, cs, b) ==
    LET m == b[1]
        s == b[2]
        on(o) == \E k \in 1..Len(cs) : cs[k].op = o /\ ~(~cs[k].w.nan /\ cs[k].w.sq = 0)
    IN  (IF s = 1 /\ m + 1 < h.N THEN {<< m + 1, 0 >>} ELSE {})
        \cup (IF s = 0 /\ m >= 1 THEN {<< m - 1, 1 >>} ELSE {})
        \cup (IF on("a") /\ m >= 1 THEN {<< m - 1, s >>} ELSE {})
        \cup (IF on("a.dag") /\ m + 1 < h.N THEN {<< m + 1, s >>} ELSE {})
        \cup (IF on("sm") /\ s = 1 THEN {<< m, 0 >>} ELSE {})

\* basis states one application of an active term of the generator
\* populates from basis state b = <<m, s>>
Hop(h, cs, b) ==
    LET m == b[1]
        s == b[2]
        on(o) == \E k \in 1..Len(cs) : cs[k].op = o /\ ~ZeroWeighted(cs[k])
    IN  (IF h.g # 0 /\ s = 1 /\ m + 1 < h.N THEN {<< m + 1, 0 >>} ELSE {})
        \cup (IF h.g # 0 /\ s = 0 /\ m >= 1 THEN {<< m - 1, 1 >>} ELSE {})
        \cup (IF on("a") /\ m >= 1 THEN {<< m - 1, s >>} ELSE {})
        \cup (IF on("a.dag") /\ m + 1 < h.N THEN {<< m + 1, s >>} ELSE {})
        \cup (IF on("sm") /\ s = 1 THEN {<< m, 0 >>} ELSE {})

RECURSIVE Reach(_, _, _)
Reach(h, cs, S) ==
    LET T == S \cup UNION { Hop(h, cs, b) : b \in S }
    IN  IF T = S THEN S ELSE Reach(h, cs, T)

\* the state stored for sample k (0-based): the initial state at k = 0,
\* afterwards what the generator has populated (NaN under NaN operators)
StateAt(k, later, nan) ==
    IF k = 0
    THEN [k |-> 0, supp |-> {Psi0}, nan |-> FALSE]
    ELSE [k |-> k, supp |-> later, nan |-> nan]

\* expectation of a.dag() * a
CavityOccupation(st) ==
    IF st.nan THEN "nan"
    ELSE IF \A b \in st.supp : b[1] = 0 THEN "zero" ELSE "positive"

\* expectation of sm.dag() * sm
AtomOccupation(st) ==
    IF st.nan THEN "nan"
    ELSE IF \A b \in st.supp : b[2] = 1 THEN "one"
    ELSE IF \A b \in st.supp : b[2] = 0 THEN "zero" ELSE "between"

\* qt.mesolve(H, psi0, t_list, c_ops, e_ops): states when e_ops is empty,
\* expectation sequences otherwise
Mesolve(h, tl, cs, withExpect) ==
    LET later == Reach(h, cs, {Psi0})
        nan == HasNaN(cs)
        st == [k \in 1..Len(tl) |-> StateAt(k - 1, later, nan)]
    IN  IF withExpect
        THEN [states |-> << >>,
              expect |-> << [k \in 1..Len(tl) |-> CavityOccupation(st[k])],
                            [k \in 1..Len(tl) |-> AtomOccupation(st[k])] >>]
        ELSE [states |-> st, expect |-> << >>]

NoResult == [states |-> << >>, expect |-> << >>]

----------------------------------------------------------------------------
(* Post-Processor *)

Abs(x) == IF x < 0 THEN -x ELSE x

\* variant: the absolute value is dropped, np.argmin(t_list - tm)
DistanceSigned(tl, k, tm) == 2 * tl[k + 1] - tm * GridDen(tl)

\* |t_list[k] - tm| for the 0-based sample k and tm in halves, times 2 * den
Distance(tl, k, tm) == Abs(2 * tl[k + 1] - tm * GridDen(tl))

\* np.argmin: the 0-based position of the first minimum of d
ArgMin(d) ==
    (CHOOSE k \in 1..Len(d) :
        \A j \in 1..Len(d) : d[k] < d[j] \/ (d[k] = d[j] /\ k <= j)) - 1

\* variant: the last sample not after tm (truncation instead of nearest)
NearestIndexFloor(tl, tm) ==
    LET below == { k \in 0..(Len(tl) - 1) : 2 * tl[k + 1] <= tm * GridDen(tl) }
    IN  IF below = {} THEN 0
        ELSE CHOOSE k \in below : \A j \in below : j <= k

\* np.argmin(np.abs(t_list - tm)), 0-based
NearestIndex(tl, tm) == ArgMin([k \in 1..Len(tl) |-> Distance(tl, k - 1, tm)])

\* state.ptrace(sel): the levels of the kept subsystem (0 cavity, 1 atom)
PTrace(st, sel) ==
    [k |-> st.k, nan |-> st.nan, levels |-> { b[sel + 1] : b \in st.supp }]

\* qt.wigner(rho_cavity, xvec, xvec): a field determined by rho and the grid
Wigner(rho, grid) == [rho |-> rho, grid |-> grid]

WignerGrid(f) == IF f = "w2d" THEN Wigner2dGrid ELSE Wigner3dGrid

\* [expect(sigmax), expect(sigmay), expect(sigmaz)] of the atom state;
\* basis(2, 1) has sigmaz = -1, and the x, y components vanish because the
\* state never holds coherence between excitation-number sectors
BlochVector(st) ==
    LET rho == PTrace(st, 1)
    IN  IF rho.nan THEN << "nan", "nan", "nan" >>
        ELSE << "0", "0",
                IF rho.levels = {1} THEN "-1"
                ELSE IF rho.levels = {0} THEN "+1" ELSE "inside" >>

\* lines 46-54: one Bloch vector per stored state
ExtractBlochVectors(states) == [k \in 1..Len(states) |-> BlochVector(states[k])]

\* variant: the slice stops one sample early, bloch_vectors[:, :idx]
TracePointsShort(bv, ix) == SubSeq(bv, 1, ix)

\* bloch_vectors[:, :idx + 1]
TracePoints(bv, ix) == SubSeq(bv, 1, ix + 1)

\* bloch_vectors[:, idx]
Arrow(bv, ix) == bv[ix + 1]

\* correlation_2op_1t + spectrum_correlation_fft: determined by H and c_ops
SpectrumFFT(h, cs) == [method |-> "fft", H |-> h, c_ops |-> cs]
\* qt.spectrum: the direct steady-state method
SpectrumDirect(h, cs) == [method |-> "direct", H |-> h, c_ops |-> cs]

----------------------------------------------------------------------------
(* Argument values the runs are drawn from *)

\* thousandths: g1 in {0, 1}, rates in {-1, 0, 1}, n in {-0.5, 0, 0.25}
G1Values == {0, 1000}
RateValues == {-1000, 0, 1000}
ThermalValues == {-500, 0, 250}
DetuningValues == {0, 1000}
CavitySizes == {2, 15}
\* bloch_dynamics_snapshots: a single sample, the grid 0, 12.5, 25, the default
TimestepValues == {1, 3, 100}
\* halves: -1 (below the range), 12.5 (midway between samples), 25, 30 (above)
TimeValues == {-2, 25, 50, 60}
\* thousandths
GValueLists == { << >>, << 0 >>, << 10, 1000 >> }

RECURSIVE ListsUpTo(_, _)
ListsUpTo(S, n) ==
    IF n = 0 THEN { << >> }
    ELSE LET shorter == ListsUpTo(S, n - 1)
         IN  shorter \cup { Append(l, x) : l \in shorter, x \in S }

TimeArgs == {Omitted} \cup { Given(l) : l \in ListsUpTo(TimeValues, MaxTimes) }

\* np.linspace(0.01, 1.0, 6), in thousandths
DefaultGValues == << 10, 208, 406, 604, 802, 1000 >>

BaseArgs ==
    [g1 |-> 0, kappa |-> 0, gamma |-> 0, detuning |-> 0, n |-> 0, N |-> 15,
     non_linear |-> FALSE, timesteps |-> 100, times |-> Omitted,
     g_values |-> Omitted, wc |-> TwoPi, wa |-> TwoPi]

ArgSpace(f) ==
    IF f = "jc"
    THEN { [BaseArgs EXCEPT !.g1 = g, !.kappa = k, !.gamma = ga, !.n = n,
                            !.detuning = d, !.non_linear = nl] :
             g \in G1Values, k \in RateValues, ga \in RateValues,
             n \in ThermalValues, d \in DetuningValues, nl \in BOOLEAN }
    ELSE IF f = "psvc"
    THEN { [BaseArgs EXCEPT !.kappa = k, !.gamma = ga, !.n = n, !.g_values = gv] :
             k \in {-700, 0, 700}, ga \in {-200, 0, 200}, n \in ThermalValues,
             gv \in {Omitted} \cup { Given(l) : l \in GValueLists } }
    ELSE \* the model parameters vary under the default snapshot times
         { [BaseArgs EXCEPT !.g1 = g, !.kappa = k, !.gamma = ga, !.n = n,
                            !.detuning = d, !.N = c] :
             g \in G1Values, k \in RateValues, ga \in RateValues,
             n \in ThermalValues, d \in DetuningValues, c \in CavitySizes }
         \cup
         \* the snapshot times and the grid vary without dissipation
         { [BaseArgs EXCEPT !.g1 = g, !.timesteps = ts, !.times = tm] :
             g \in G1Values,
             ts \in (IF f = "bloch" THEN TimestepValues ELSE {WignerSamples}),
             tm \in TimeArgs }

----------------------------------------------------------------------------
(* Control flow of the five function bodies *)

\* variant: the snapshot functions solve again for every panel
AfterSolvePerPanel(f, label, more) ==
    IF f = "jc"
    THEN CASE label = "build" -> "mesolve"
           [] label = "mesolve" -> "plot_occ"
           [] label = "plot_occ" -> "corr"
           [] label = "corr" -> "plot_spec"
           [] OTHER -> "done"
    ELSE IF f = "psvc"
    THEN CASE label = "setup" -> "figure"
           [] label \in {"figure", "plot_curve"} -> IF more THEN "build" ELSE "show"
           [] label = "build" -> "corr"
           [] label = "corr" -> "plot_curve"
           [] OTHER -> "done"
    ELSE CASE label = "build" -> "subplots"
           [] label \in {"subplots", "draw"} -> IF more THEN "mesolve" ELSE "show"
           [] label = "mesolve" -> IF f = "bloch" THEN "extract" ELSE "select"
           [] label = "extract" -> "select"
           [] label = "select" -> "draw"
           [] OTHER -> "done"

\* the statement block that follows block `label`; `more` tells whether the
\* loop has another element
After(f, label, more) ==
    IF f = "jc"
    THEN CASE label = "build" -> "mesolve"
           [] label = "mesolve" -> "plot_occ"
           [] label = "plot_occ" -> "corr"
           [] label = "corr" -> "plot_spec"
           [] OTHER -> "done"
    ELSE IF f = "psvc"
    THEN CASE label = "setup" -> "figure"
           [] label \in {"figure", "plot_curve"} -> IF more THEN "build" ELSE "show"
           [] label = "build" -> "corr"
           [] label = "corr" -> "plot_curve"
           [] OTHER -> "done"
    ELSE CASE label = "build" -> "mesolve"
           [] label = "mesolve" -> IF f = "bloch" THEN "extract" ELSE "subplots"
           [] label = "extract" -> "subplots"
           [] label \in {"subplots", "draw"} -> IF more THEN "select" ELSE "show"
           [] label = "select" -> "draw"
           [] OTHER -> "done"

FirstLabel(f) == IF f = "psvc" THEN "setup" ELSE "build"

\* the list a default argument binds: the caller's list, else the default
\* object stored with the function definition
BindTimes(f, a, d) ==
    IF f \in SnapshotFunctions
    THEN IF a.times.given THEN a.times.v ELSE d[f]
    ELSE << >>

\* variant: the body consumes the list, times.pop(0)
TimesPopped(l, k) == Tail(l)

\* the list object after the body of iteration k ran: the body only reads it
TimesAfterPanel(l, k) == l

\* number of samples of the evolution grid
Samples(f, a) ==
    IF f = "jc" THEN JCSamples
    ELSE IF f = "bloch" THEN a.timesteps ELSE WignerSamples

\* what the function holds as `axes` after plt.subplots for n panels:
\* pyplot squeezes a 1 x 1 grid to a single Axes, and only the Wigner
\* functions wrap it in a list again
AxesAfterSubplots(f, n) ==
    IF n = 1 /\ f = "bloch"
    THEN [subscriptable |-> FALSE, n |-> 1]
    ELSE [subscriptable |-> TRUE, n |-> n]

NoAxes == [subscriptable |-> TRUE, n |-> 0]

CurPass == IF trace = << >> THEN 0 ELSE trace[Len(trace)].pass
Log(stage, newPass) ==
    Append(trace, [stage |-> Rank(stage),
                   pass |-> IF newPass THEN CurPass + 1 ELSE CurPass])

DefaultLists ==
    [w2d |-> << 0, 10, 20, 30, 40 >>, w3d |-> << 0, 10, 20, 30, 40 >>,
     bloch |-> << 0, 10, 20, 30, 40, 50 >>]

\* everything a call computes
Outputs ==
    [H |-> H, c_ops |-> c_ops, t_list |-> t_list, result |-> result,
     bloch_vectors |-> bloch_vectors, panels |-> panels, spectra |-> spectra,
     times |-> times, g_values |-> g_values, err |-> err]

NoOutputs ==
    [H |-> << >>, c_ops |-> << >>, t_list |-> << >>, result |-> NoResult,
     bloch_vectors |-> << >>, panels |-> << >>, spectra |-> << >>,
     times |-> << >>, g_values |-> << >>, err |-> "none"]

\* the local variables at the start of a call
Enter(f, a, d) ==
    /\ pc = FirstLabel(f)
    /\ err = "none"
    /\ times = BindTimes(f, a, d)
    /\ H = << >>
    /\ c_ops = << >>
    /\ t_list = << >>
    /\ result = NoResult
    /\ bloch_vectors = << >>
    /\ axes = NoAxes
    /\ i = -1
    /\ g_values = << >>
    /\ t = 0
    /\ idx = -1
    /\ W = << >>
    /\ panels = << >>
    /\ spectra = << >>
    /\ trace = << >>

Init ==
    /\ fn \in Functions
    /\ args \in ArgSpace(fn)
    /\ nanRaises \in (IF HasNaN(CollapseOperators(fn, args)) THEN BOOLEAN ELSE {FALSE})
    /\ defaults = DefaultLists
    /\ figCount = 0
    /\ invocation = 1
    /\ prev = NoOutputs
    /\ Enter(fn, args, defaults)

----------------------------------------------------------------------------
(* The statement blocks *)

run == << fn, args, nanRaises, invocation, prev >>

\* Model Builder: operators, collapse operators, Hamiltonian (inside the
\* loop over g_values in power_spectrum_vs_coupling)
Build ==
    /\ pc = "build"
    /\ i' = IF fn = "psvc" THEN i + 1 ELSE i
    /\ H' = << Hamiltonian(fn, args, IF fn = "psvc" THEN g_values[i' + 1] ELSE args.g1) >>
    /\ c_ops' = CollapseOperators(fn, args)
    /\ trace' = Log("Model Builder", fn = "psvc")
    /\ pc' = After(fn, "build", FALSE)
    /\ UNCHANGED << run, defaults, figCount, err, times, t_list, result,
                    bloch_vectors, axes, g_values, t, idx, W, panels, spectra >>

\* t_list = np.linspace(0, 25, ...); result = qt.mesolve(...)
Solve ==
    /\ pc = "mesolve"
    /\ t_list' = Linspace(TEnd, Samples(fn, args))
    /\ trace' = Log("Evolver", FALSE)
    /\ IF HasNaN(c_ops) /\ nanRaises
       THEN /\ pc' = "error"
            /\ err' = "library"
            /\ result' = result
       ELSE /\ pc' = After(fn, "mesolve", FALSE)
            /\ err' = err
            /\ result' = Mesolve(H[1], t_list', c_ops, fn = "jc")
    /\ UNCHANGED << run, defaults, figCount, times, H, c_ops, bloch_vectors,
                    axes, i, g_values, t, idx, W, panels, spectra >>

\* jaynes_cummings_dynamics, first figure: the two occupation curves
PlotOccupation ==
    /\ pc = "plot_occ"
    /\ figCount' = figCount + 1
    /\ panels' = Append(panels, [title |-> "Jaynes-Cummings Dynamics",
                                 curves |-> << "Cavity", "Atom" >>,
                                 points |-> Len(result.expect[1])])
    /\ trace' = Log("Renderer", FALSE)
    /\ pc' = After(fn, "plot_occ", FALSE)
    /\ UNCHANGED << run, defaults, err, times, H, c_ops, t_list, result,
                    bloch_vectors, axes, i, g_values, t, idx, W, spectra >>

\* correlation function and spectrum (both methods in
\* jaynes_cummings_dynamics, the FFT one per coupling strength otherwise)
Correlate ==
    /\ pc = "corr"
    /\ trace' = Log("Post-Processor", fn = "jc")
    /\ IF HasNaN(c_ops) /\ nanRaises
       THEN /\ pc' = "error"
            /\ err' = "library"
            /\ spectra' = spectra
       ELSE /\ pc' = After(fn, "corr", FALSE)
            /\ err' = err
            /\ spectra' = IF fn = "jc"
                          THEN << SpectrumFFT(H[1], c_ops), SpectrumDirect(H[1], c_ops) >>
                          ELSE Append(spectra, SpectrumFFT(H[1], c_ops))
    /\ UNCHANGED << run, defaults, figCount, times, H, c_ops, t_list, result,
                    bloch_vectors, axes, i, g_values, t, idx, W, panels >>

\* jaynes_cummings_dynamics, second figure: the two spectra
PlotSpectrum ==
    /\ pc = "plot_spec"
    /\ figCount' = figCount + 1
    /\ panels' = Append(panels, [title |-> "Vacuum Rabi Splitting",
                                 curves |-> << "eseries method", "me+fft method" >>,
                                 points |-> Len(spectra)])
    /\ trace' = Log("Renderer", FALSE)
    /\ pc' = After(fn, "plot_spec", FALSE)
    /\ UNCHANGED << run, defaults, err, times, H, c_ops, t_list, result,
                    bloch_vectors, axes, i, g_values, t, idx, W, spectra >>

\* bloch_dynamics_snapshots: Bloch vector of every stored state
ExtractBloch ==
    /\ pc = "extract"
    /\ bloch_vectors' = ExtractBlochVectors(result.states)
    /\ trace' = Log("Post-Processor", FALSE)
    /\ pc' = After(fn, "extract", FALSE)
    /\ UNCHANGED << run, defaults, figCount, err, times, H, c_ops, t_list,
                    result, axes, i, g_values, t, idx, W, panels, spectra >>

\* plt.subplots for len(times) panels: pyplot raises ValueError for 0
Subplots ==
    /\ pc = "subplots"
    /\ figCount' = figCount + 1
    /\ trace' = Log("Renderer", FALSE)
    /\ IF Len(times) = 0
       THEN /\ pc' = "error"
            /\ err' = "library"
            /\ axes' = axes
       ELSE /\ pc' = After(fn, "subplots", TRUE)
            /\ err' = err
            /\ axes' = AxesAfterSubplots(fn, Len(times))
    /\ UNCHANGED << run, defaults, times, H, c_ops, t_list, result,
                    bloch_vectors, i, g_values, t, idx, W, panels, spectra >>

\* loop head and sample selection: idx = np.argmin(np.abs(t_list - t)),
\* and in the Wigner functions the cavity state and its Wigner function
Select ==
    /\ pc = "select"
    /\ i' = i + 1
    /\ t' = times[i' + 1]
    /\ idx' = NearestIndex(t_list, t')
    /\ W' = IF fn = "bloch" THEN W
            ELSE << Wigner(PTrace(result.states[idx' + 1], 0), WignerGrid(fn)) >>
    /\ trace' = Log("Post-Processor", TRUE)
    /\ pc' = After(fn, "select", FALSE)
    /\ UNCHANGED << run, defaults, figCount, err, times, H, c_ops, t_list,
                    result, bloch_vectors, axes, g_values, panels, spectra >>

\* what is drawn on axes[i]
PanelContent ==
    IF fn = "bloch"
    THEN [arrow |-> Arrow(bloch_vectors, idx), points |-> TracePoints(bloch_vectors, idx)]
    ELSE [W |-> W[1]]

\* the rest of the loop body: axes[i] is drawn on and titled with t
Draw ==
    /\ pc = "draw"
    /\ trace' = Log("Renderer", FALSE)
    /\ IF ~axes.subscriptable
       THEN /\ pc' = "error"
            /\ err' = "local"
            /\ UNCHANGED << panels, times, defaults >>
       ELSE /\ panels' = Append(panels, [slot |-> i, title |-> t, idx |-> idx,
                                         content |-> PanelContent])
            /\ times' = TimesAfterPanel(times, i)
            /\ defaults' = IF args.times.given THEN defaults
                           ELSE [defaults EXCEPT ![fn] = times']
            /\ pc' = After(fn, "draw", i + 1 < Len(times'))
            /\ err' = err
    /\ UNCHANGED << run, figCount, H, c_ops, t_list, result, bloch_vectors,
                    axes, i, g_values, t, idx, W, spectra >>

\* plt.show() after the loop
Show ==
    /\ pc = "show"
    /\ trace' = Log("Renderer", FALSE)
    /\ pc' = After(fn, "show", FALSE)
    /\ UNCHANGED << run, defaults, figCount, err, times, H, c_ops, t_list,
                    result, bloch_vectors, axes, i, g_values, t, idx, W,
                    panels, spectra >>

\* power_spectrum_vs_coupling: default coupling strengths and grids
Setup ==
    /\ pc = "setup"
    /\ g_values' = IF args.g_values.given THEN args.g_values.v ELSE DefaultGValues
    /\ trace' = Log("Model Builder", FALSE)
    /\ pc' = After(fn, "setup", FALSE)
    /\ UNCHANGED << run, defaults, figCount, err, times, H, c_ops, t_list,
                    result, bloch_vectors, axes, i, t, idx, W, panels, spectra >>

\* power_spectrum_vs_coupling: plt.figure before the loop
Figure ==
    /\ pc = "figure"
    /\ figCount' = figCount + 1
    /\ trace' = Log("Renderer", FALSE)
    /\ pc' = After(fn, "figure", Len(g_values) > 0)
    /\ UNCHANGED << run, defaults, err, times, H, c_ops, t_list, result,
                    bloch_vectors, axes, i, g_values, t, idx, W, panels, spectra >>

\* power_spectrum_vs_coupling: one curve per coupling strength
PlotCurve ==
    /\ pc = "plot_curve"
    /\ panels' = Append(panels, [label |-> g_values[i + 1],
                                 curve |-> spectra[Len(spectra)]])
    /\ trace' = Log("Renderer", FALSE)
    /\ pc' = After(fn, "plot_curve", i + 1 < Len(g_values))
    /\ UNCHANGED << run, defaults, figCount, err, times, H, c_ops, t_list,
                    result, bloch_vectors, axes, i, g_values, t, idx, W, spectra >>

Terminated == pc \in {"done", "error"}

\* the caller invokes the same function again with the same arguments
Reinvoke ==
    /\ Terminated
    /\ invocation < MaxInvocations
    /\ invocation' = invocation + 1
    /\ prev' = IF invocation = 1 THEN Outputs ELSE prev
    /\ pc' = FirstLabel(fn)
    /\ err' = "none"
    /\ times' = BindTimes(fn, args, defaults)
    /\ H' = << >>
    /\ c_ops' = << >>
    /\ t_list' = << >>
    /\ result' = NoResult
    /\ bloch_vectors' = << >>
    /\ axes' = NoAxes
    /\ i' = -1
    /\ g_values' = << >>
    /\ t' = 0
    /\ idx' = -1
    /\ W' = << >>
    /\ panels' = << >>
    /\ spectra' = << >>
    /\ trace' = << >>
    /\ UNCHANGED << fn, args, nanRaises, defaults, figCount >>

Next ==
    \/ Build
    \/ Solve
    \/ PlotOccupation
    \/ Correlate
    \/ PlotSpectrum
    \/ ExtractBloch
    \/ Subplots
    \/ Select
    \/ Draw
    \/ Show
    \/ Setup
    \/ Figure
    \/ PlotCurve
    \/ Reinvoke

Spec == Init /\ [][Next]_vars

----------------------------------------------------------------------------
(* Properties *)

\* the (requested time, selected index) pairs of this call: the panels
\* drawn and the selection of the iteration in progress
Selections ==
    { << panels[p].title, panels[p].idx >> : p \in 1..Len(panels) }
    \cup (IF pc = "draw" \/ (pc = "error" /\ err = "local") THEN { << t, idx >> } ELSE {})

InSnapshot == fn \in SnapshotFunctions

NegativeRate == args.kappa < 0 \/ args.gamma < 0 \/ args.n < 0

\* C1: in the snapshot functions a requested time below the evolved range
\* [0, 25] selects sample 0, one above it selects the last sample, and the
\* selected index is always within the grid.
C1_ClampToRange ==
    InSnapshot =>
        \A sel \in Selections :
            /\ sel[2] >= 0 /\ sel[2] <= Len(t_list) - 1
            /\ sel[1] < 0 => sel[2] = 0
            /\ sel[1] > 2 * TEnd => sel[2] = Len(t_list) - 1

C1_Witness ==
    /\ InSnapshot
    /\ Len(t_list) > 1
    /\ \E a, b \in Selections :
          /\ a[1] < 0 /\ a[2] = 0
          /\ b[1] > 2 * TEnd /\ b[2] = Len(t_list) - 1

\* C2: when a snapshot function ends without a library failure, it has
\* drawn exactly one panel per supplied time, the k-th panel on the k-th
\* axes and titled with the k-th time.
C2_OnePanelPerTime ==
    (InSnapshot /\ Terminated /\ err # "library") =>
        /\ Len(panels) = Len(times)
        /\ \A k \in 1..Len(panels) :
              panels[k].title = times[k] /\ panels[k].slot = k - 1

\* the stored sample a panel is rendered from
RenderedFrom(p) ==
    IF fn = "bloch"
    THEN p.content.arrow = BlochVector(result.states[p.idx + 1])
    ELSE /\ p.content.W.rho.k = p.idx
         /\ p.content.W = Wigner(PTrace(result.states[p.idx + 1], 0), WignerGrid(fn))

\* C3: the sample selected for a requested time has the least absolute
\* difference to it over the whole grid, the panel is rendered from that
\* stored sample, and panels with the same selected sample show the same
\* content.
C3_NearestStoredSample ==
    InSnapshot =>
        /\ \A sel \in Selections : \A j \in 0..(Len(t_list) - 1) :
              Abs(2 * t_list[sel[2] + 1] - sel[1] * GridDen(t_list))
                 <= Abs(2 * t_list[j + 1] - sel[1] * GridDen(t_list))
        /\ \A p \in 1..Len(panels) : RenderedFrom(panels[p])
        /\ \A p, q \in 1..Len(panels) :
              panels[p].idx = panels[q].idx => panels[p].content = panels[q].content

C3_Witness ==
    /\ InSnapshot
    /\ Len(t_list) > 1
    /\ \E p, q \in 1..Len(panels) :
          /\ panels[p].title # panels[q].title
          /\ panels[p].idx = panels[q].idx
          /\ panels[p].idx > 0
          /\ 2 * t_list[panels[q].idx + 1] # panels[q].title * GridDen(t_list)

OccupationsKept ==
    /\ \A k \in 1..Len(result.expect[1]) : result.expect[1][k] = "zero"
    /\ \A k \in 1..Len(result.expect[2]) : result.expect[2][k] = "one"

JCSolved == fn = "jc" /\ result.expect # << >>

\* C4 as claimed (read for well-formed, non-negative rates): with g1 = 0
\* the cavity occupation stays 0 and the atom occupation stays 1 at every
\* time sample.
C4_ZeroCouplingConstant ==
    (JCSolved /\ args.g1 = 0 /\ ~NegativeRate) => OccupationsKept

\* C4 as amended: with g1 = 0, gamma = 0, kappa >= 0 and kappa * n = 0 the
\* cavity occupation stays 0 and the atom occupation stays 1 at every time
\* sample.
C4_ZeroCouplingNoLossConstant ==
    (JCSolved /\ args.g1 = 0 /\ args.gamma = 0 /\ args.kappa >= 0
        /\ args.kappa * args.n = 0) => OccupationsKept

C4_Witness ==
    /\ JCSolved /\ args.g1 = 0 /\ args.gamma = 0 /\ args.kappa > 0 /\ args.n = 0
    /\ Len(result.expect[1]) = JCSamples
    /\ OccupationsKept

InDecayFunctions == fn \in {"jc"} \cup SnapshotFunctions
ZeroRatesBuilt == InDecayFunctions /\ c_ops # << >> /\ args.kappa = 0 /\ args.gamma = 0

\* C5 as claimed: with kappa = 0 and gamma = 0 every collapse operator
\* handed to the solver is zero-weighted.
C5_ZeroRatesAllZero ==
    ZeroRatesBuilt => \A k \in 1..Len(c_ops) : ZeroWeighted(c_ops[k])

\* C5 as amended: with kappa = 0 and gamma = 0 every collapse operator of
\* the three snapshot functions is zero-weighted; in
\* jaynes_cummings_dynamics the three rate-dependent operators are
\* zero-weighted and the list also holds the dephasing operator with the
\* fixed weight sqrt(0.001).
C5_ZeroRatesAllZeroButDephasing ==
    ZeroRatesBuilt =>
        /\ \A k \in 1..Len(c_ops) : c_ops[k].op # "sz" => ZeroWeighted(c_ops[k])
        /\ fn # "jc" => \A k \in 1..Len(c_ops) : c_ops[k].op # "sz"
        /\ fn = "jc" => /\ Len(c_ops) = 4
                        /\ c_ops[4] = [w |-> [nan |-> FALSE, sq |-> GammaPhiMicro], op |-> "sz"]

C5_Witness ==
    /\ ZeroRatesBuilt /\ args.n # 0 /\ fn = "jc"
    /\ pc = "mesolve"

Descends(j, k) == j < k /\ trace[j].stage > trace[k].stage

\* C6 as claimed: the stages run in the order Model Builder, Evolver,
\* Post-Processor, Renderer; once a later stage has started no earlier
\* stage runs again.
C6_StagesNeverGoBack ==
    \A j, k \in 1..Len(trace) : ~Descends(j, k)

\* C6 as amended: an earlier stage runs again only when a new pass begins
\* (the next panel, the next coupling strength, the spectrum part of
\* jaynes_cummings_dynamics); within a pass the order is kept, the solver
\* call is preceded only by model building, and outside
\* power_spectrum_vs_coupling the model is built once, first.
C6_ForwardWithinPass ==
    /\ \A j, k \in 1..Len(trace) :
          Descends(j, k) => trace[j].pass < trace[k].pass
    /\ \A j, k \in 1..Len(trace) :
          (j < k /\ trace[k].stage = Rank("Evolver")) =>
              trace[j].stage = Rank("Model Builder")
    /\ fn # "psvc" =>
          \A k \in 1..Len(trace) : trace[k].stage = Rank("Model Builder") => k = 1

C6_Witness ==
    /\ pc = "done"
    /\ \E j, k \in 1..Len(trace) : Descends(j, k)
    /\ \E k \in 1..Len(trace) : trace[k].stage = Rank("Evolver")

\* C7: a repeated call with the same arguments ends with the same values
\* as the first call: operators, time grid, solver output, selected
\* indices, derived arrays, panels and error state.
C7_RepeatedCallSameValues ==
    (invocation >= 2 /\ Terminated) => Outputs = prev

C7_Witness ==
    /\ invocation = 2 /\ pc = "done"
    /\ InSnapshot /\ ~args.times.given
    /\ Len(panels) = Len(DefaultLists[fn])
    /\ figCount > 1

\* C8: in the four functions that accept a detuning, the cavity frequency
\* of the Hamiltonian differs from the atom frequency by the detuning
\* passed in, for runs with well-formed rates.
C8_DetuningInHamiltonian ==
    (InDecayFunctions /\ H # << >> /\ ~NegativeRate) =>
        FreqSub(H[1].wc, H[1].wa) = Detuning(args.detuning)

\* C9: no error is raised by the functions themselves: with a negative
\* rate the collapse operators are still built and the run reaches the
\* solver call, and a run that ends in error does so through an exception
\* of a library call.
C9_OnlyLibraryErrors ==
    /\ (NegativeRate /\ c_ops # << >>) =>
          (c_ops = CollapseOperators(fn, args) /\ (pc \in {"mesolve", "corr"} => err = "none"))
    /\ pc = "error" <=> err # "none"
    /\ err \in {"none", "library"}

BlochPanels == IF fn = "bloch" THEN panels ELSE << >>

\* C10: in bloch_dynamics_snapshots the trace of a panel is the Bloch
\* vectors of samples 0 .. idx in order, the arrow is the vector of sample
\* idx (the last trace point), and the trace of a panel with a smaller
\* selected index is a prefix of the trace of one with a larger index.
C10_TraceUpToSnapshot ==
    /\ \A p \in 1..Len(BlochPanels) :
          LET c == panels[p].content
          IN  /\ c.points = [j \in 1..(panels[p].idx + 1) |-> BlochVector(result.states[j])]
              /\ c.arrow = c.points[Len(c.points)]
              /\ c.arrow = BlochVector(result.states[panels[p].idx + 1])
    /\ \A p, q \in 1..Len(BlochPanels) :
          panels[p].idx <= panels[q].idx =>
              panels[p].content.points
                  = SubSeq(panels[q].content.points, 1, Len(panels[p].content.points))

C10_Witness ==
    /\ fn = "bloch"
    /\ \E p, q \in 1..Len(panels) :
          /\ panels[p].idx < panels[q].idx
          /\ panels[p].content.arrow # panels[q].content.arrow
          /\ Len(panels[p].content.points) < Len(panels[q].content.points)

====
